---- MODULE Spec2Model ----
(***************************************************************************)
(* Playback engine of mocap-viz: the animation tick (clock advance, sample *)
(* indexing, loop reset), the trail buffers and the spike scan.            *)
(*                                                                         *)
(* The repository holds three revisions of the animation loop:            *)
(*   "bloom"  : src/unnamed/part_000      marker trails, no empty branch   *)
(*   "first"  : src/src/main.js 1..293    marker trails, spike scan,       *)
(*                                        integer currentSample++          *)
(*   "second" : src/src/main.js 294..767  wall-clock advance, loop reset,  *)
(*                                        restart, rigid-body trail        *)
(* The variable program says which revision a behaviour runs.             *)
(*                                                                         *)
(* Representation.                                                         *)
(*  - JavaScript arrays are functions on 0..n-1 (Len0 is their length).    *)
(*  - currentSample is kept in half samples (fixed point, 2 units = one    *)
(*    sample), so Math.floor is \div 2.  The wall-clock delta is kept in   *)
(*    units of 1/240 s, so delta * 120 is delta half samples.              *)
(*  - times (frameTimes, spikeTimes) are integers in units of 0.1.         *)
(*  - a position is a record [x, y, z] of integers; 0 is the value the     *)
(*    buffers are pre-filled with, every loaded sample is non-zero.        *)
(*  - the progress value j / (count - 1) is the pair <<j, count - 1>>.     *)
(*  - the random dither added to a spike dot's position is left out: a     *)
(*    dot records the rigid-body position it was dropped at.               *)
(***************************************************************************)
EXTENDS Integers, Sequences, FiniteSets, TLC

\* ---------------------------------------------------------------- bounds
\* longest loaded track (marker samples, frame times, rigid-body samples)
MaxSamples == 3
\* largest trail capacity (maxTrailLength) tried
MaxCapacity == 3
\* longest spike table
MaxSpikes == 2
\* floor(currentSample) never exceeds this: ticks beyond it are cut off
MaxPosition == 14
\* longest run of one-sample ticks that is recorded
MaxTicks == 5
\* the emphasis clock stops here, and at most this many events are emphasized
MaxNow == 7
MaxEvents == 2

\* ------------------------------------------------------ program constants
markersCount == 8
stride == 3
SELECTED_NEURONS == {60, 61}

\* ------------------------------------------------------------ input sets
\* wall-clock time between two ticks, in units of 1/240 s (25 is > 0.1 s)
Deltas == {1, 2, 25}
\* playbackSpeed slider values (the GUI allows 1..10)
Speeds == {1, 2}
\* spike timestamps and source ids a spike file may hold
SpikeTimeValues == {0, 5, 12}
NeuronIds == {60, 7}
Programs == {"bloom", "first", "second"}

\* ------------------------------------------------------------- arrays
Len0(a) == Cardinality(DOMAIN a)
EmptyArr == [j \in {} |-> 0]
Zeros(n) == [j \in 0..(n - 1) |-> 0]
Min(a, b) == IF a < b THEN a ELSE b

\* typed-array store: an index outside the array is ignored
StoreF32(arr, idx, v) == IF idx \in DOMAIN arr THEN [arr EXCEPT ![idx] = v] ELSE arr

Floor(cs) == cs \div 2

\* ------------------------------------------------------------- the data
ZeroPos == [x |-> 0, y |-> 0, z |-> 0]
MarkerSample(i, j) == [x |-> 1000 * (i + 1) + 10 * (j + 1) + 1,
                       y |-> 1000 * (i + 1) + 10 * (j + 1) + 2,
                       z |-> 1000 * (i + 1) + 10 * (j + 1) + 3]
RbSample(j) == [x |-> 9000 + 10 * (j + 1) + 1,
                y |-> 9000 + 10 * (j + 1) + 2,
                z |-> 9000 + 10 * (j + 1) + 3]
\* markerData: one array of samples per marker
MarkerTracks(samples) ==
    [i \in 0..(markersCount - 1) |-> [j \in 0..(samples - 1) |-> MarkerSample(i, j)]]
RbTrack(samples) == [j \in 0..(samples - 1) |-> RbSample(j)]
\* frame_times.bin: ascending, 1.0 apart, starting at 0.0
FrameTrack(samples) == [j \in 0..(samples - 1) |-> 10 * j]

\* spike_times.bin is sorted ascending (the scan relies on it)
IsAscending(a) == \A j \in DOMAIN a : \A k \in DOMAIN a : j <= k => a[j] <= a[k]
SpikeTimeTables ==
    UNION {{t \in [0..(n - 1) -> SpikeTimeValues] : IsAscending(t)} : n \in 0..MaxSpikes}
SpikeTables ==
    {[times |-> t, neurons |-> ids] :
        t \in SpikeTimeTables, ids \in UNION {[0..(n - 1) -> NeuronIds] : n \in 0..MaxSpikes}}
SameLength(tab) == Len0(tab.times) = Len0(tab.neurons)

DefaultTable == [times |-> [j \in 0..(MaxSpikes - 1) |-> IF j = 0 THEN 5 ELSE 12],
                 neurons |-> [j \in 0..(MaxSpikes - 1) |-> IF j = 1 THEN 7 ELSE 60]]

\* a spike file whose first spike is stamped 0.0
EarlyTable == [times |-> [j \in 0..(MaxSpikes - 1) |-> IF j = 0 THEN 0 ELSE 5],
               neurons |-> [j \in 0..(MaxSpikes - 1) |-> 60]]

\* The files a run is served: the marker samples, the frame-time and the
\* rigid-body sample counts, the spike table, and the trail capacity.
\* One family of inputs varies the marker length with the capacity, one
\* the rigid-body length with the capacity, one the frame-time length,
\* one the spike table; the others stay at the default.
Config(l, f, r, tab, cap) ==
    [samples |-> l, frames |-> f, rbSamples |-> r, table |-> tab, capacity |-> cap]
Configs ==
    {Config(l, MaxSamples, MaxSamples, DefaultTable, cap) :
        l \in 1..MaxSamples, cap \in 1..MaxCapacity}
    \cup {Config(MaxSamples, MaxSamples, r, DefaultTable, cap) :
        r \in 1..MaxSamples, cap \in 1..MaxCapacity}
    \cup {Config(MaxSamples, f, MaxSamples, DefaultTable, 1) : f \in 1..MaxSamples}
    \cup {Config(MaxSamples, MaxSamples, MaxSamples, tab, 1) :
        tab \in {t \in SpikeTables : SameLength(t)}}
    \* a marker file with no samples, and a primary track of four samples
    \cup {Config(0, MaxSamples, MaxSamples, DefaultTable, 1)}
    \cup {Config(4, 4, 4, DefaultTable, 1)}
    \* a frame-time table shorter than the markers, a spike stamped 0.0
    \cup {Config(MaxSamples, 1, MaxSamples, EarlyTable, 1)}

VARIABLES
    program,          \* which revision runs
    files,            \* the files on the server (a Config)
    maxTrailLength,   \* const maxTrailLength
    markerData,       \* let markerData = []
    markers,          \* marker sphere positions (markers[i].position)
    trails,           \* per marker: positions, progress, count (bloom, first)
    currentSample,    \* let currentSample = 0 (half samples)
    lastSampleIndex,  \* let lastSampleIndex = 0
    playbackSpeed,    \* playbackControls.playbackSpeed
    clockRunning,     \* THREE.Clock: started by the first getDelta
    frameTimes, spikeTimes, spikeNeurons, rbposData,
    spikeIndex,       \* let spikeIndex = 0
    spikeGroup,       \* spikeGroup.children
    rbSphere,         \* rbSphere.position
    rbTrailPositions, \* flat array of the rigid-body trail
    rbTrailCount,     \* let rbTrailCount = 0
    \* history of the last step, for stating the claims
    op,               \* the operation the last step ran
    delta,            \* the wall delta the last tick's clock.getDelta() returned
    looped,           \* the last tick took the loop-reset branch
    appendSlot,       \* slot indices the last tick's trail append wrote
    rbAppended,       \* positions appended to the rigid-body trail since
                      \* rbTrailCount was last 0 (the last maxTrailLength)
    rbAppends,        \* how many (counted up to maxTrailLength + 1)
    emptyRun,         \* the same scans run with an empty filter: cursor, events
    thrown,           \* the last tick raised a TypeError out of animate
    lookups,          \* the indices the last tick read each track at, and the
                      \* frame time its scan used
    unitRun,          \* the ticks since the clock started at position 0, while
                      \* each of them advanced by exactly one sample
    \* the emphasis animator (spec 4.5)
    now,              \* the time weightAt is asked for
    emphasized        \* the emitted events with their emphasis parameters

vars == <<program, files, maxTrailLength, markerData, markers, trails,
          currentSample, lastSampleIndex, playbackSpeed, clockRunning,
          frameTimes, spikeTimes, spikeNeurons, rbposData, spikeIndex,
          spikeGroup, rbSphere, rbTrailPositions, rbTrailCount,
          op, delta, looped, appendSlot, rbAppended, rbAppends, emptyRun,
          thrown, lookups, unitRun, now, emphasized>>

\* the playback engine's variables
playback == <<program, files, maxTrailLength, markerData, markers, trails,
              currentSample, lastSampleIndex, playbackSpeed, clockRunning,
              frameTimes, spikeTimes, spikeNeurons, rbposData, spikeIndex,
              spikeGroup, rbSphere, rbTrailPositions, rbTrailCount,
              op, delta, looped, appendSlot, rbAppended, rbAppends, emptyRun,
              thrown, lookups, unitRun>>


\* ------------------------------------------------------- trail buffers
\* (mutant) the shift moves the array by one number instead of one position
RECURSIVE ShiftByOne(_, _, _)
ShiftByOne(arr, j, n) ==
    IF j < n THEN ShiftByOne([arr EXCEPT ![j] = arr[j + 1]], j + 1, n) ELSE arr

\* for (let j = 0; j < n; j++) arr[j] = arr[j + stride]
RECURSIVE ShiftLoop(_, _, _)
ShiftLoop(arr, j, n) ==
    IF j < n THEN ShiftLoop([arr EXCEPT ![j] = arr[j + stride]], j + 1, n) ELSE arr

\* posArray[base] = pos.x; posArray[base + 1] = pos.y; posArray[base + 2] = pos.z
\* (rbTrailPositions is a plain array; its stores are always inside it)
StorePos(arr, base, pos) ==
    StoreF32(StoreF32(StoreF32(arr, base, pos.x), base + 1, pos.y), base + 2, pos.z)

\* if (count < maxTrailLength) count++
NextCount(count, cap) == IF count < cap THEN count + 1 ELSE count

\* (mutant) the ramp divides by count instead of count - 1
ProgressOverCount(j, count) == IF count > 1 THEN <<j, count>> ELSE <<1, 1>>

\* (trail.count > 1) ? (j / (trail.count - 1)) : 1
Progress(j, count) == IF count > 1 THEN <<j, count - 1>> ELSE <<1, 1>>

\* for (let j = 0; j < trail.count; j++) progArray[j] = ...
ProgressLoop(progArray, count) ==
    [j \in DOMAIN progArray |-> IF j < count THEN Progress(j, count) ELSE progArray[j]]

NewTrail(cap) == [positions |-> Zeros(cap * stride),
                  progress |-> [j \in 0..(cap - 1) |-> <<0, 1>>],
                  count |-> 0]

\* the slot the append of a tick writes the new position to
FirstAppendSlot(count) == IF count = 0 THEN 0 ELSE count - 1
BloomAppendSlot(count) == count - 1

\* main.js (first revision): the trail update of one marker
TrailUpdateFirst(trail, pos, cap) ==
    LET posArray == IF trail.count = 0
                    THEN StorePos(trail.positions, 0, pos)
                    ELSE StorePos(ShiftLoop(trail.positions, 0, (trail.count - 1) * stride),
                                  (trail.count - 1) * stride, pos)
        count == IF trail.count = 0 THEN 1 ELSE NextCount(trail.count, cap)
    IN  [positions |-> posArray,
         progress |-> ProgressLoop(trail.progress, count),
         count |-> count]

\* part_000: the trail update of one marker (no branch for the empty trail)
TrailUpdateBloom(trail, pos, cap) ==
    LET posArray == StorePos(ShiftLoop(trail.positions, 0, (trail.count - 1) * stride),
                             (trail.count - 1) * stride, pos)
        count == NextCount(trail.count, cap)
    IN  [positions |-> posArray,
         progress |-> ProgressLoop(trail.progress, count),
         count |-> count]

\* main.js (second revision): updateRigidBody, from the position on
RbAppend(positions, count, rbPos, cap) ==
    LET appended == IF count = 0
                    THEN StorePos(positions, 0, rbPos)
                    ELSE StorePos(ShiftLoop(positions, 0, (count - 1) * stride),
                                  (count - 1) * stride, rbPos)
        newCount == IF count = 0 THEN 1 ELSE NextCount(count, cap)
        \* pad all unused positions with the current position
        padded == [j \in DOMAIN appended |->
                     IF j >= newCount * stride
                     THEN (CASE j % stride = 0 -> rbPos.x
                             [] j % stride = 1 -> rbPos.y
                             [] OTHER -> rbPos.z)
                     ELSE appended[j]]
    IN  [positions |-> padded, count |-> newCount]

\* Math.floor(currentSample) % track.length
SampleIndex(cs, len) == Floor(cs) % len

UpdateRigidBody(cs, positions, count, sphere, cap) ==
    IF Len0(rbposData) = 0
    THEN [positions |-> positions, count |-> count, sphere |-> sphere]
    ELSE LET rbPos == rbposData[SampleIndex(cs, Len0(rbposData))]
             r == RbAppend(positions, count, rbPos, cap)
         IN  [positions |-> r.positions, count |-> r.count, sphere |-> rbPos]

\* slot i of a flat position array, as a position
SlotOf(arr, i) == [x |-> arr[i * stride], y |-> arr[i * stride + 1], z |-> arr[i * stride + 2]]


\* ---------------------------------------------------------- spike scan
\* frameTimes[index] || 0 : a missing entry (and 0 itself) gives 0
FrameTimeOrZero(ft, index) == IF index \in DOMAIN ft /\ ft[index] # 0 THEN ft[index] ELSE 0

\* rbposData[index] || { x: 0, y: 0, z: 0 }
RbPosOrZero(rb, index) == IF index \in DOMAIN rb THEN rb[index] ELSE ZeroPos

\* (mutant) a spike is due only strictly before the frame time
SpikeDueStrict(times, index, currentFrameTime) ==
    index < Len0(times) /\ times[index] < currentFrameTime

\* spikeIndex < spikeTimes.length && spikeTimes[spikeIndex] <= currentFrameTime
SpikeDue(times, index, currentFrameTime) ==
    index < Len0(times) /\ times[index] <= currentFrameTime

\* the dot dropped for spike number index (spike is the table index it came from)
SpikeDot(neuronId, rbPos, index) ==
    [neuronId |-> neuronId, x |-> rbPos.x, z |-> rbPos.z, spike |-> index]

\* (mutant) the dot is dropped whatever the neuron
EmitUnfiltered(filter, group, neuronId, rbPos, index) ==
    Append(group, SpikeDot(neuronId, rbPos, index))

\* the body of the while loop: the new spikeGroup.children
EmitIfSelected(filter, group, neuronId, rbPos, index) ==
    IF neuronId \in filter THEN Append(group, SpikeDot(neuronId, rbPos, index)) ELSE group

\* (mutant) the scan stops at a due spike that is not selected
RECURSIVE ScanStopsAtFiltered(_, _, _, _, _)
ScanStopsAtFiltered(filter, currentFrameTime, rbPos, index, group) ==
    IF SpikeDue(spikeTimes, index, currentFrameTime) /\ spikeNeurons[index] \in filter
    THEN ScanStopsAtFiltered(filter, currentFrameTime, rbPos, index + 1,
                             EmitIfSelected(filter, group, spikeNeurons[index], rbPos, index))
    ELSE [spikeIndex |-> index, spikeGroup |-> group]

\* (mutant) a do-while scan: the body runs once before the first test
RECURSIVE ScanDoWhile(_, _, _, _, _)
ScanDoWhile(filter, currentFrameTime, rbPos, index, group) ==
    LET group1 == IF index \in DOMAIN spikeNeurons
                  THEN EmitIfSelected(filter, group, spikeNeurons[index], rbPos, index)
                  ELSE group
    IN  IF SpikeDue(spikeTimes, index + 1, currentFrameTime)
        THEN ScanDoWhile(filter, currentFrameTime, rbPos, index + 1, group1)
        ELSE [spikeIndex |-> index + 1, spikeGroup |-> group1]

\* while (SpikeDue) { if (selected) spikeGroup.add(dot); spikeIndex++; }
RECURSIVE ScanLoop(_, _, _, _, _)
ScanLoop(filter, currentFrameTime, rbPos, index, group) ==
    IF SpikeDue(spikeTimes, index, currentFrameTime)
    THEN ScanLoop(filter, currentFrameTime, rbPos, index + 1,
                  EmitIfSelected(filter, group, spikeNeurons[index], rbPos, index))
    ELSE [spikeIndex |-> index, spikeGroup |-> group]

\* main.js (second revision): updateSpikes
UpdateSpikes(filter, cs, index, group) ==
    ScanLoop(filter, FrameTimeOrZero(frameTimes, Floor(cs)),
             RbPosOrZero(rbposData, SampleIndex(cs, Len0(rbposData))), index, group)

\* main.js (first revision): the spike scan of animate
DropSpikeDots(filter, cs, index, group) ==
    ScanLoop(filter, FrameTimeOrZero(frameTimes, Floor(cs)),
             RbPosOrZero(rbposData, Floor(cs)), index, group)

\* frameTimes.length > 0 && spikeTimes.length > 0 && rbposData.length > 0
SpikesReady == Len0(frameTimes) > 0 /\ Len0(spikeTimes) > 0 /\ Len0(rbposData) > 0

\* --------------------------------------------------------------- clock
\* (mutant) the advance ignores the speed slider
AdvanceIgnoringSpeed(dt, speed) == (dt * 120 * 2) \div 240

\* delta * 120 * playbackControls.playbackSpeed, in half samples
Advance(dt, speed) == (dt * 120 * speed * 2) \div 240

\* (mutant) the loop reset forgets to clear the dots
KeepGroup(loop, group) == group

\* the loop reset's spikeGroup.clear()
ClearGroup(loop, group) == IF loop THEN <<>> ELSE group

\* (mutant) no loop detection, as in the first revision
NoLoopDetection(currentFrameIndex, lastIndex) == FALSE

\* if (currentFrameIndex < lastSampleIndex)
DidLoop(currentFrameIndex, lastIndex) == currentFrameIndex < lastIndex

\* the rigid-body append history, after one more append
Remember(hist, pos, cap) ==
    LET h == Append(hist, pos)
    IN  IF Len(h) > cap THEN SubSeq(h, Len(h) - cap + 1, Len(h)) ELSE h

\* (mutant) the loop reset forgets the cursor
KeepCursor(loop, index) == index

\* the loop reset's spikeIndex = 0
ResetCursor(loop, index) == IF loop THEN 0 ELSE index

\* const pos = data[sampleIndex]; pos.x : with an empty first marker track
\* sampleIndex is NaN, pos is undefined and pos.x raises a TypeError
Throws == Len0(markerData) > 0 /\ Len0(markerData[0]) = 0

\* the track reads of one tick
Lookups(m, r, f, t) == [marker |-> m, rb |-> r, frame |-> f, frameTime |-> t]
NoLookups == Lookups({}, {}, {}, {})

\* the record of a run of one-sample ticks
UnitRunOff == [on |-> FALSE, ticks |-> <<>>]
UnitTick(run, step, advanced, index, loop, position) ==
    IF run.on /\ step = 2 /\ Len(run.ticks) < MaxTicks
    THEN [on |-> TRUE,
          ticks |-> Append(run.ticks, [advanced |-> advanced, index |-> index,
                                       looped |-> loop, position |-> position])]
    ELSE UnitRunOff

\* ---------------------------------------------------------------- Init
Init ==
    /\ program \in Programs
    /\ files \in Configs
    /\ maxTrailLength = files.capacity
    /\ markerData = EmptyArr
    /\ markers = EmptyArr
    /\ trails = EmptyArr
    /\ currentSample = 0
    /\ lastSampleIndex = 0
    /\ playbackSpeed = 1
    /\ clockRunning = FALSE
    /\ frameTimes = EmptyArr
    /\ spikeTimes = EmptyArr
    /\ spikeNeurons = EmptyArr
    /\ rbposData = EmptyArr
    /\ spikeIndex = 0
    /\ spikeGroup = <<>>
    /\ rbSphere = ZeroPos
    /\ rbTrailPositions = EmptyArr
    /\ rbTrailCount = 0
    /\ op = "init"
    /\ delta = 0
    /\ looped = FALSE
    /\ appendSlot = {}
    /\ rbAppended = <<>>
    /\ rbAppends = 0
    /\ emptyRun = [spikeIndex |-> 0, spikeGroup |-> <<>>]
    /\ thrown = FALSE
    /\ lookups = NoLookups
    /\ unitRun = [on |-> (program = "second"), ticks |-> <<>>]
    /\ now = 0
    /\ emphasized = <<>>

\* ------------------------------------------------------------- loading
\* the marker Promise.all resolves: markerData, the spheres, the trails
LoadMarkers ==
    /\ Len0(markerData) = 0
    /\ markerData' = MarkerTracks(files.samples)
    /\ markers' = [i \in 0..(markersCount - 1) |-> ZeroPos]
    /\ trails' = IF program = "second" THEN trails
                 ELSE [i \in 0..(markersCount - 1) |-> NewTrail(maxTrailLength)]
    /\ op' = "loadMarkers"
    /\ UNCHANGED <<now, emphasized>>
    /\ delta' = 0
    /\ looped' = FALSE
    /\ appendSlot' = {}
    /\ thrown' = FALSE
    /\ lookups' = NoLookups
    /\ UNCHANGED unitRun
    /\ UNCHANGED <<program, files, maxTrailLength, currentSample, lastSampleIndex,
                   playbackSpeed, clockRunning, frameTimes, spikeTimes, spikeNeurons,
                   rbposData, spikeIndex, spikeGroup, rbSphere, rbTrailPositions,
                   rbTrailCount, rbAppended, rbAppends, emptyRun>>

\* the spike and rigid-body Promise.all resolves
LoadSpikes ==
    /\ program # "bloom"
    /\ Len0(frameTimes) = 0
    /\ frameTimes' = FrameTrack(files.frames)
    /\ spikeTimes' = files.table.times
    /\ spikeNeurons' = files.table.neurons
    /\ rbposData' = RbTrack(files.rbSamples)
    /\ rbTrailPositions' = IF program = "second" THEN Zeros(maxTrailLength * stride)
                           ELSE rbTrailPositions
    /\ op' = "loadSpikes"
    /\ UNCHANGED <<now, emphasized>>
    /\ delta' = 0
    /\ looped' = FALSE
    /\ appendSlot' = {}
    /\ thrown' = FALSE
    /\ lookups' = NoLookups
    /\ UNCHANGED unitRun
    /\ UNCHANGED <<program, files, maxTrailLength, markerData, markers, trails,
                   currentSample, lastSampleIndex, playbackSpeed, clockRunning,
                   spikeIndex, spikeGroup, rbSphere, rbTrailCount, rbAppended,
                   rbAppends, emptyRun>>


\* ---------------------------------------------------------------- ticks
\* marker.position.set(pos.x, pos.y, pos.z) for every marker, at sample position cs
MarkersAt(cs) ==
    [i \in DOMAIN markers |-> markerData[i][SampleIndex(cs, Len0(markerData[i]))]]

\* part_000: animate
AnimateBloom ==
    /\ program = "bloom"
    /\ ~Throws
    /\ thrown' = FALSE
    /\ UNCHANGED unitRun
    /\ lookups' = IF Len0(markerData) > 0
                  THEN Lookups({SampleIndex(currentSample, Len0(markerData[0]))}, {}, {}, {})
                  ELSE NoLookups
    /\ IF Len0(markerData) > 0
       THEN /\ Floor(currentSample) < MaxPosition
            /\ markers' = MarkersAt(currentSample)
            /\ trails' = [i \in DOMAIN trails |->
                            TrailUpdateBloom(trails[i], MarkersAt(currentSample)[i],
                                             maxTrailLength)]
            /\ appendSlot' = {BloomAppendSlot(trails[i].count) : i \in DOMAIN trails}
            /\ currentSample' = currentSample + 2
       ELSE /\ appendSlot' = {}
            /\ UNCHANGED <<markers, trails, currentSample>>
    /\ op' = "animate"
    /\ UNCHANGED <<now, emphasized>>
    /\ delta' = 0
    /\ looped' = FALSE
    /\ UNCHANGED <<program, files, maxTrailLength, markerData, lastSampleIndex,
                   playbackSpeed, clockRunning, frameTimes, spikeTimes, spikeNeurons,
                   rbposData, spikeIndex, spikeGroup, rbSphere, rbTrailPositions,
                   rbTrailCount, rbAppended, rbAppends, emptyRun>>

\* main.js (first revision): animate
AnimateFirst ==
    /\ program = "first"
    /\ ~Throws
    /\ thrown' = FALSE
    /\ UNCHANGED unitRun
    /\ LET has == Len0(markerData) > 0
           cs1 == IF has THEN currentSample + 2 ELSE currentSample
           scan == IF SpikesReady
                   THEN DropSpikeDots(SELECTED_NEURONS, cs1, spikeIndex, spikeGroup)
                   ELSE [spikeIndex |-> spikeIndex, spikeGroup |-> spikeGroup]
           none == IF SpikesReady
                   THEN DropSpikeDots({}, cs1, emptyRun.spikeIndex, emptyRun.spikeGroup)
                   ELSE emptyRun
       IN  /\ has => Floor(currentSample) < MaxPosition
           /\ IF has
              THEN /\ markers' = MarkersAt(currentSample)
                   /\ trails' = [i \in DOMAIN trails |->
                                   TrailUpdateFirst(trails[i], MarkersAt(currentSample)[i],
                                                    maxTrailLength)]
                   /\ appendSlot' = {FirstAppendSlot(trails[i].count) : i \in DOMAIN trails}
              ELSE /\ appendSlot' = {}
                   /\ UNCHANGED <<markers, trails>>
           /\ currentSample' = cs1
           /\ spikeIndex' = scan.spikeIndex
           /\ spikeGroup' = scan.spikeGroup
           /\ emptyRun' = none
           /\ lookups' =
                 Lookups(IF has THEN {SampleIndex(currentSample, Len0(markerData[0]))}
                         ELSE {},
                         IF Len(scan.spikeGroup) > Len(spikeGroup) THEN {Floor(cs1)} ELSE {},
                         IF SpikesReady THEN {Floor(cs1)} ELSE {},
                         IF SpikesReady THEN {FrameTimeOrZero(frameTimes, Floor(cs1))}
                         ELSE {})
    /\ op' = "animate"
    /\ UNCHANGED <<now, emphasized>>
    /\ delta' = 0
    /\ looped' = FALSE
    /\ UNCHANGED <<program, files, maxTrailLength, markerData, lastSampleIndex,
                   playbackSpeed, clockRunning, frameTimes, spikeTimes, spikeNeurons,
                   rbposData, rbSphere, rbTrailPositions, rbTrailCount, rbAppended,
                   rbAppends>>

\* main.js (second revision): animate, with d the wall-clock time since the last tick
AnimateSecond(d) ==
    /\ program = "second"
    /\ ~Throws
    /\ thrown' = FALSE
    /\ LET has == Len0(markerData) > 0
           \* clock.getDelta(): 0 on the call that starts the clock
           dt == IF has /\ clockRunning THEN d ELSE 0
           advanced == currentSample + Advance(dt, playbackSpeed)
           currentFrameIndex == SampleIndex(advanced, Len0(markerData[0]))
           loop == has /\ DidLoop(currentFrameIndex, lastSampleIndex)
           cs1 == IF ~has THEN currentSample ELSE IF loop THEN 0 ELSE advanced
           index1 == ResetCursor(loop, spikeIndex)
           group1 == ClearGroup(loop, spikeGroup)
           count1 == IF loop THEN 0 ELSE rbTrailCount
           empty1 == IF loop THEN [spikeIndex |-> 0, spikeGroup |-> <<>>] ELSE emptyRun
           hist1 == IF count1 = 0 THEN <<>> ELSE rbAppended
           appends1 == IF count1 = 0 THEN 0 ELSE rbAppends
           scan == UpdateSpikes(SELECTED_NEURONS, cs1, index1, group1)
           rb == UpdateRigidBody(cs1, rbTrailPositions, count1, rbSphere, maxTrailLength)
       IN  /\ has => Floor(advanced) <= MaxPosition
           /\ markers' = IF has THEN MarkersAt(currentSample) ELSE markers
           /\ clockRunning' = (clockRunning \/ has)
           /\ currentSample' = cs1
           /\ lastSampleIndex' = IF has THEN currentFrameIndex ELSE lastSampleIndex
           /\ looped' = loop
           /\ delta' = dt
           /\ unitRun' = IF has /\ clockRunning
                          THEN UnitTick(unitRun, advanced - currentSample, advanced,
                                        currentFrameIndex, loop, cs1)
                          ELSE unitRun
           /\ lookups' =
                 Lookups(IF has THEN {SampleIndex(currentSample, Len0(markerData[0]))}
                         ELSE {},
                         IF SpikesReady THEN {SampleIndex(cs1, Len0(rbposData))} ELSE {},
                         IF SpikesReady THEN {Floor(cs1)} ELSE {},
                         IF SpikesReady THEN {FrameTimeOrZero(frameTimes, Floor(cs1))}
                         ELSE {})
           /\ IF SpikesReady
              THEN /\ spikeIndex' = scan.spikeIndex
                   /\ spikeGroup' = scan.spikeGroup
                   /\ emptyRun' = UpdateSpikes({}, cs1, empty1.spikeIndex, empty1.spikeGroup)
                   /\ rbTrailPositions' = rb.positions
                   /\ rbTrailCount' = rb.count
                   /\ rbSphere' = rb.sphere
                   /\ appendSlot' = {FirstAppendSlot(count1)}
                   /\ rbAppended' = Remember(hist1, rb.sphere, maxTrailLength)
                   /\ rbAppends' = Min(appends1 + 1, maxTrailLength + 1)
              ELSE /\ spikeIndex' = index1
                   /\ spikeGroup' = group1
                   /\ emptyRun' = empty1
                   /\ rbTrailCount' = count1
                   /\ appendSlot' = {}
                   /\ rbAppended' = hist1
                   /\ rbAppends' = appends1
                   /\ UNCHANGED <<rbTrailPositions, rbSphere>>
    /\ op' = "animate"
    /\ UNCHANGED <<now, emphasized>>
    /\ UNCHANGED <<program, files, maxTrailLength, markerData, trails, playbackSpeed,
                   frameTimes, spikeTimes, spikeNeurons, rbposData>>

\* (mutant) restart leaves the dots in the scene
RestartKeepsDots(group) == group

\* restart: if (spikeGroup.clear) spikeGroup.clear()
RestartDots(group) == <<>>

\* playbackControls.restart
Restart ==
    /\ program = "second"
    /\ currentSample' = 0
    /\ spikeIndex' = 0
    /\ spikeGroup' = RestartDots(spikeGroup)
    /\ emptyRun' = [spikeIndex |-> 0, spikeGroup |-> <<>>]
    /\ op' = "restart"
    /\ UNCHANGED <<now, emphasized>>
    /\ delta' = 0
    /\ looped' = FALSE
    /\ appendSlot' = {}
    /\ thrown' = FALSE
    /\ lookups' = NoLookups
    /\ unitRun' = UnitRunOff
    /\ UNCHANGED <<program, files, maxTrailLength, markerData, markers, trails,
                   lastSampleIndex, playbackSpeed, clockRunning, frameTimes, spikeTimes,
                   spikeNeurons, rbposData, rbSphere, rbTrailPositions, rbTrailCount,
                   rbAppended, rbAppends>>

\* the 'Playback Speed' slider
SetSpeed(s) ==
    /\ program = "second"
    /\ s # playbackSpeed
    /\ playbackSpeed' = s
    /\ op' = "setSpeed"
    /\ UNCHANGED <<now, emphasized>>
    /\ delta' = 0
    /\ looped' = FALSE
    /\ appendSlot' = {}
    /\ thrown' = FALSE
    /\ lookups' = NoLookups
    /\ UNCHANGED unitRun
    /\ UNCHANGED <<program, files, maxTrailLength, markerData, markers, trails,
                   currentSample, lastSampleIndex, clockRunning, frameTimes, spikeTimes,
                   spikeNeurons, rbposData, spikeIndex, spikeGroup, rbSphere,
                   rbTrailPositions, rbTrailCount, rbAppended, rbAppends, emptyRun>>

\* animate, any revision, with an empty first marker track: the exception
\* leaves animate before anything is written (the next frame is already
\* requested, so the ticks go on)
AnimateThrows ==
    /\ Throws
    /\ thrown' = TRUE
    /\ op' = "animate"
    /\ UNCHANGED <<now, emphasized>>
    /\ delta' = 0
    /\ looped' = FALSE
    /\ appendSlot' = {}
    /\ lookups' = NoLookups
    /\ unitRun' = UnitRunOff
    /\ UNCHANGED <<program, files, maxTrailLength, markerData, markers, trails,
                   currentSample, lastSampleIndex, playbackSpeed, clockRunning,
                   frameTimes, spikeTimes, spikeNeurons, rbposData, spikeIndex,
                   spikeGroup, rbSphere, rbTrailPositions, rbTrailCount,
                   rbAppended, rbAppends, emptyRun>>

Tick == \E d \in Deltas : AnimateSecond(d)
Slider == \E s \in Speeds : SetSpeed(s)

Next ==
    \/ LoadMarkers
    \/ LoadSpikes
    \/ AnimateBloom
    \/ AnimateFirst
    \/ Tick
    \/ AnimateThrows
    \/ Restart
    \/ Slider

Spec == Init /\ [][Next]_vars

\* ------------------------------------------------------- running session
\* A session of the current revision on a short primary track: the loads
\* resolve, and requestAnimationFrame(animate) is the first statement of
\* animate, so a next tick is always scheduled.
LiveInit ==
    /\ Init
    /\ program = "second"
    /\ files \in {Config(n, MaxSamples, MaxSamples, DefaultTable, 1) : n \in 1 .. 2}
LiveNext ==
    \/ LoadMarkers
    \/ LoadSpikes
    \/ Tick
    \/ Restart
    \/ Slider
LiveSpec ==
    /\ LiveInit
    /\ [][LiveNext]_vars
    /\ WF_vars(Tick)
    /\ WF_vars(LoadMarkers)
    /\ WF_vars(LoadSpikes)

\* ------------------------------------------------- emphasis animator
\* Spec 4.5 (EmphasisAnimator); its code is not among the source files.
\* Times are integers; a scale is kept in units of 1 / (2 * EmphasisDuration),
\* so that initialScale * 0.5 and every interpolated value are integers.
EmphasisDuration == 5
DecayRates == {2, 3}
InitialScales == {1, 2}

\* (mutant) the scale keeps shrinking after the emphasis duration
LerpUnclamped(a, b, age) == a * EmphasisDuration + (b - a) * age

\* a + (b - a) * min(age / D, 1), times D
Lerp(a, b, age) == a * EmphasisDuration + (b - a) * Min(age, EmphasisDuration)

\* weightAt(event, now).scale: from initialScale to initialScale * 0.5
WeightAt(event, t) ==
    Lerp(2 * event.initialScale, event.initialScale, t - event.birthTime)

\* an event is emitted: birthTime, decayRate and initialScale are assigned
EmitEvent ==
    /\ Len(emphasized) < MaxEvents
    /\ \E r \in DecayRates : \E s0 \in InitialScales :
          LET e == [birthTime |-> now, decayRate |-> r, initialScale |-> s0]
          IN  emphasized' = Append(emphasized,
                                   [birthTime |-> now, decayRate |-> r,
                                    initialScale |-> s0, scale |-> WeightAt(e, now)])
    /\ UNCHANGED now
    /\ UNCHANGED playback

\* a frame later: the derived scale of every event is recomputed
AgeEvents ==
    /\ now < MaxNow
    /\ now' = now + 1
    /\ emphasized' = [k \in DOMAIN emphasized |->
                        [emphasized[k] EXCEPT !.scale = WeightAt(emphasized[k], now + 1)]]
    /\ UNCHANGED playback

EmphasisInit ==
    /\ Init
    /\ program = "second"
    /\ files = Config(MaxSamples, MaxSamples, MaxSamples, DefaultTable, 1)

EmphasisNext ==
    \/ EmitEvent
    \/ AgeEvents

EmphasisSpec == EmphasisInit /\ [][EmphasisNext]_vars


\* ================================================================ claims
MarkersLoaded == Len0(markerData) > 0
TrailsExist == program # "second" /\ MarkersLoaded
\* marker revisions: one append per tick since the markers loaded
MarkerAppends == Floor(currentSample)
\* the position a marker trail was handed by append number n (1, 2, ...)
MarkerAppended(i, n) == markerData[i][(n - 1) % Len0(markerData[i])]

\* C1: a tick whose wall-clock delta exceeds 0.1 s (24 units of 1/240 s)
\* contributes no advance: unless the tick resets for a loop, currentSample
\* after it equals currentSample before it.
C1_LargeDeltaClamped ==
    [][(op' = "animate" /\ delta' * 10 > 240 /\ ~looped')
          => currentSample' = currentSample]_vars

\* C2: after N >= 1 appends to a trail that started empty, the count is
\* min(N, capacity) and slot count-1 holds the position appended last; for
\* every marker trail and for the rigid-body trail.
C2_NewestSlotHoldsLatest ==
    /\ (TrailsExist /\ MarkerAppends >= 1) =>
          \A i \in DOMAIN trails :
             /\ trails[i].count = Min(MarkerAppends, maxTrailLength)
             /\ SlotOf(trails[i].positions, trails[i].count - 1)
                   = MarkerAppended(i, MarkerAppends)
    /\ (program = "second" /\ rbAppends >= 1) =>
          /\ rbTrailCount = Min(rbAppends, maxTrailLength)
          /\ SlotOf(rbTrailPositions, rbTrailCount - 1) = rbAppended[Len(rbAppended)]

\* C3: slots 0..count-1 hold exactly the last min(N, capacity) appended
\* positions, oldest first.
C3_SlotsAreLastAppended ==
    /\ TrailsExist =>
          \A i \in DOMAIN trails :
             /\ trails[i].count = Min(MarkerAppends, maxTrailLength)
             /\ \A k \in 0..(trails[i].count - 1) :
                   SlotOf(trails[i].positions, k)
                      = MarkerAppended(i, MarkerAppends - trails[i].count + k + 1)
    /\ program = "second" =>
          /\ rbTrailCount = Len(rbAppended)
          /\ \A k \in 0..(rbTrailCount - 1) :
                SlotOf(rbTrailPositions, k) = rbAppended[k + 1]

\* C4: every trail's count is within 0..maxTrailLength and no append
\* writes a slot index outside 0..maxTrailLength-1.
C4_CountAndSlotInRange ==
    /\ \A i \in DOMAIN trails : trails[i].count \in 0..maxTrailLength
    /\ rbTrailCount \in 0..maxTrailLength
    /\ appendSlot \subseteq 0..(maxTrailLength - 1)


\* what an append to a full trail must do: marker trail i, rigid-body trail
FullMarkerAppend(i) ==
    /\ trails'[i].count = maxTrailLength
    /\ \A k \in 0..(maxTrailLength - 2) :
          SlotOf(trails'[i].positions, k) = SlotOf(trails[i].positions, k + 1)
    /\ SlotOf(trails'[i].positions, maxTrailLength - 1) = markers'[i]
FullRbAppend ==
    /\ rbTrailCount' = maxTrailLength
    /\ \A k \in 0..(maxTrailLength - 2) :
          SlotOf(rbTrailPositions', k) = SlotOf(rbTrailPositions, k + 1)
    /\ SlotOf(rbTrailPositions', maxTrailLength - 1) = rbSphere'

\* C5: an append to a full trail (count = capacity) leaves the count at
\* capacity, moves every slot i+1 to slot i and puts the appended position
\* in the last slot; for the marker trails and the rigid-body trail.
C5_FullAppendEvictsOldest ==
    [][/\ (op' = "animate" /\ TrailsExist) =>
             \A i \in DOMAIN trails :
                trails[i].count = maxTrailLength => FullMarkerAppend(i)
       /\ (op' = "animate" /\ program = "second" /\ SpikesReady /\ ~looped'
             /\ rbTrailCount = maxTrailLength) => FullRbAppend]_vars

\* a full rigid-body trail of two or more slots was appended to, evicting
\* a position that differs from the one appended
C5_Witness ==
    /\ program = "second"
    /\ op = "animate"
    /\ maxTrailLength >= 2
    /\ rbAppends > maxTrailLength
    /\ rbTrailCount = maxTrailLength
    /\ SlotOf(rbTrailPositions, 0) # SlotOf(rbTrailPositions, maxTrailLength - 1)

\* the progress value p (a pair <<numerator, denominator>>) is num / den
ProgressIs(p, num, den) == p[2] > 0 /\ p[1] * den = num * p[2]

\* C6: after a trail update the progress of slot j < count is j/(count-1)
\* when count > 1 and 1 when count = 1; so the newest slot has 1, the
\* oldest 0 when there is more than one point, and it never decreases
\* with j.
C6_RecencyRamp ==
    \A i \in DOMAIN trails :
       LET t == trails[i]
       IN  t.count >= 1 =>
              /\ \A j \in 0..(t.count - 1) :
                    IF t.count > 1 THEN ProgressIs(t.progress[j], j, t.count - 1)
                                   ELSE ProgressIs(t.progress[j], 1, 1)
              /\ ProgressIs(t.progress[t.count - 1], 1, 1)
              /\ (t.count > 1 => t.progress[0][1] = 0)
              /\ \A j \in 0..(t.count - 2) :
                    t.progress[j][1] * t.progress[j + 1][2]
                       <= t.progress[j + 1][1] * t.progress[j][2]

\* a trail of three points: progress 0, 1/2, 1
C6_Witness ==
    /\ op = "animate"
    /\ \E i \in DOMAIN trails : trails[i].count = 3


\* no two dots of the group come from the same spike table entry
NoSpikeTwice(group) ==
    \A a \in DOMAIN group : \A b \in DOMAIN group : a # b => group[a].spike # group[b].spike

\* C7: the cursor never decreases except on a reset to 0 (the loop reset
\* of a tick, or restart), and the dots emitted since the last reset come
\* from distinct spike table entries.
C7_CursorMonotoneNoReemit ==
    [][/\ (op' # "restart" /\ ~looped') => spikeIndex' >= spikeIndex
       /\ NoSpikeTwice(spikeGroup')]_vars

\* after a loop reset, the tick's scan emitted a spike again
C7_Witness ==
    /\ looped
    /\ spikeIndex > 0
    /\ spikeGroup # <<>>

\* C8: after a scan, every spike below the cursor has a timestamp <= the
\* frame time the latest scan used (the frame time at currentSample, 0 when
\* the lookup is out of range).
C8_ConsumedNotAfterFrameTime ==
    SpikesReady =>
       \A k \in 0..(spikeIndex - 1) :
          spikeTimes[k] <= FrameTimeOrZero(frameTimes, Floor(currentSample))

\* the step's scan started at cursor c with the dots group and used frame time t
ScanIsExact(c, group, t) ==
    LET n == Len0(spikeTimes)
        selected == {k \in c..(spikeIndex' - 1) : spikeNeurons[k] \in SELECTED_NEURONS}
        new == [k \in 1..(Len(spikeGroup') - Len(group)) |-> spikeGroup'[Len(group) + k]]
    IN  /\ spikeIndex' \in c..n
        /\ spikeIndex' = n \/ spikeTimes[spikeIndex'] > t
        /\ \A k \in c..(spikeIndex' - 1) : spikeTimes[k] <= t
        /\ Len(spikeGroup') >= Len(group)
        /\ SubSeq(spikeGroup', 1, Len(group)) = group
        /\ Len(new) = Cardinality(selected)
        /\ \A k \in DOMAIN new :
              /\ new[k].spike \in selected
              /\ new[k].neuronId = spikeNeurons[new[k].spike]
        /\ \A k \in DOMAIN new : k > 1 => new[k - 1].spike < new[k].spike

\* C9: a scan with frame time t from cursor c ends at the least c' >= c
\* with c' = N or spikeTimes[c'] > t, and appends to the dots exactly the
\* entries c..c'-1 whose id is selected, in index order.
C9_ScanConsumesDuePrefix ==
    [][(op' = "animate" /\ SpikesReady) =>
          ScanIsExact(IF looped' THEN 0 ELSE spikeIndex,
                      IF looped' THEN <<>> ELSE spikeGroup,
                      FrameTimeOrZero(frameTimes, Floor(currentSample')))]_vars

\* one scan consumed a filtered-out entry and then emitted the next one
C9_Witness ==
    /\ op = "animate"
    /\ Len0(spikeTimes) = 2
    /\ spikeTimes[0] = spikeTimes[1]
    /\ spikeNeurons[0] \notin SELECTED_NEURONS
    /\ spikeIndex = 2
    /\ Len(spikeGroup) = 1
    /\ spikeGroup[1].spike = 1

\* C10: the cursor does not depend on the filter: the run with the empty
\* filter has the same cursor after every step and emits nothing, and when
\* every id of the table is selected the dots number the table's length
\* once the cursor is at its end.
C10_CursorIgnoresFilter ==
    /\ emptyRun.spikeIndex = spikeIndex
    /\ emptyRun.spikeGroup = <<>>
    /\ ((\A k \in DOMAIN spikeNeurons : spikeNeurons[k] \in SELECTED_NEURONS)
           /\ spikeIndex = Len0(spikeTimes)) => Len(spikeGroup) = Len0(spikeTimes)

\* the whole table is consumed, one entry was selected, the other was not
C10_Witness ==
    /\ op = "animate"
    /\ Len0(spikeTimes) = 2
    /\ spikeIndex = 2
    /\ Len(spikeGroup) = 1
    /\ emptyRun.spikeIndex = 2

\* ------------------------------------------------------- loop detection
\* length of the primary (first marker) track
PrimaryLength == Len0(markerData[0])
\* the recorded one-sample ticks, one field at a time
UnitTicks == Len(unitRun.ticks)
UnitField(f) == [k \in 1..UnitTicks |-> unitRun.ticks[k][f]]
\* the k-th one-sample tick from position 0: the index is k mod L, and the
\* loop is signalled exactly when the index went L-1 -> 0
LoopOncePerPass ==
    \A k \in 1..UnitTicks :
        /\ unitRun.ticks[k].index = k % PrimaryLength
        /\ unitRun.ticks[k].looped <=> (k % PrimaryLength = 0)

Advanced == currentSample + ((delta' * 120 * playbackSpeed * 2) \div 240)
TickRan == op' = "animate" /\ program = "second" /\ MarkersLoaded /\ ~thrown'

\* C12: for arbitrary advances the loop is signalled on a tick exactly when
\* the position passed the end of the primary track on that tick
\* (floor(position) reached L): never on a tick whose position stayed below
\* L since the last reset, such as the tick after a loop reset or a restart.
C12_LoopOnlyOnCrossing ==
    [][TickRan => (looped' <=> Floor(Advanced) >= PrimaryLength)]_vars

\* C13: on a tick that detects a loop the position, the cursor, the dots
\* and the trail count are reset together before the scan and the append
\* run: the position is 0, the scan ran from cursor 0 with no dots at the
\* frame time and rigid-body sample of position 0, and the append was the
\* first of an empty trail; with the spike side not loaded all four are at
\* their initial values.
C13_LoopResetsTogether ==
    [][looped' =>
          /\ currentSample' = 0
          /\ IF SpikesReady
             THEN /\ ScanIsExact(0, <<>>, FrameTimeOrZero(frameTimes, 0))
                  /\ \A k \in DOMAIN spikeGroup' :
                        /\ spikeGroup'[k].x = rbposData[0].x
                        /\ spikeGroup'[k].z = rbposData[0].z
                  /\ rbTrailCount' = 1
                  /\ SlotOf(rbTrailPositions', 0) = rbposData[0]
                  /\ rbSphere' = rbposData[0]
             ELSE /\ spikeIndex' = 0
                  /\ spikeGroup' = <<>>
                  /\ rbTrailCount' = 0]_vars

\* a loop tick whose scan, run after the reset, emitted the first spike again
C13_Witness ==
    /\ looped
    /\ SpikesReady
    /\ currentSample = 0
    /\ Len0(spikeTimes) = 2
    /\ spikeTimes[1] > 0
    /\ spikeIndex = 1
    /\ Len(spikeGroup) = 1
    /\ spikeGroup[1].spike = 0
    /\ rbTrailCount = 1

\* C14: the clamp-at-end policy: a tick whose advance reaches the end of
\* the primary track leaves the position at the last valid index L-1,
\* signals no loop, and resets neither the cursor, the dots nor the trail.
C14_ClampAtEndFreezes ==
    [][(TickRan /\ Floor(Advanced) >= PrimaryLength) =>
          /\ Floor(currentSample') = PrimaryLength - 1
          /\ ~looped'
          /\ spikeIndex' >= spikeIndex
          /\ Len(spikeGroup') >= Len(spikeGroup)
          /\ rbTrailCount' >= rbTrailCount]_vars

\* C15: every index a tick read a track at lies in [0, trackLength): the
\* marker index in the primary track, the rigid-body and the frame-time
\* index, the last two being floor(position) mod the track's length.
C15_LookupsUseModIndex ==
    op = "animate" =>
        /\ \A j \in lookups.marker : j \in 0..(PrimaryLength - 1)
        /\ \A j \in lookups.rb :
              /\ j \in 0..(Len0(rbposData) - 1)
              /\ j = Floor(currentSample) % Len0(rbposData)
        /\ \A j \in lookups.frame :
              /\ j \in 0..(Len0(frameTimes) - 1)
              /\ j = Floor(currentSample) % Len0(frameTimes)

\* C16: with a primary marker track of zero samples loaded, no tick raises
\* an exception out of animate.
C16_EmptyTrackRaisesNothing ==
    (op = "animate" /\ MarkersLoaded /\ PrimaryLength = 0) => ~thrown

\* C17: when a tick's frame-time or rigid-body lookup is outside the
\* track, the value used is the track's last sample: the scan's frame time
\* is the last frame time, and the dot dropped is at the last rigid-body
\* sample.
C17_OutOfRangeUsesLastSample ==
    (op = "animate" /\ SpikesReady) =>
        /\ \A j \in lookups.frame :
              j \notin DOMAIN frameTimes =>
                 lookups.frameTime = {frameTimes[Len0(frameTimes) - 1]}
        /\ \A j \in lookups.rb :
              j \notin DOMAIN rbposData =>
                 /\ spikeGroup[Len(spikeGroup)].x = rbposData[Len0(rbposData) - 1].x
                 /\ spikeGroup[Len(spikeGroup)].z = rbposData[Len0(rbposData) - 1].z

\* C18: a tick whose frame-time lookup is out of range emits no dot and
\* leaves the cursor where it was.
C18_NoFrameTimeNoEmission ==
    [][(op' = "animate" /\ SpikesReady
           /\ \E j \in lookups'.frame : j \notin DOMAIN frameTimes) =>
          /\ lookups'.frameTime = {0}
          /\ spikeIndex' = spikeIndex
          /\ spikeGroup' = spikeGroup]_vars

\* C19: a tick that runs before the spike side is loaded leaves the cursor,
\* the dots and the rigid-body trail unchanged; a tick that runs before the
\* markers are loaded leaves the position and the last index unchanged; and
\* neither of these ticks raises an error.
C19_PartialLoadTolerated ==
    [][(op' = "animate" /\ program # "bloom") =>
          /\ Len0(frameTimes) = 0 =>
                UNCHANGED <<spikeIndex, spikeGroup, rbTrailPositions, rbTrailCount,
                            rbSphere>>
          /\ Len0(markerData) = 0 => UNCHANGED <<currentSample, lastSampleIndex>>
          /\ (Len0(frameTimes) = 0 \/ Len0(markerData) = 0) => ~thrown']_vars

\* C20: the position is never negative; a tick that signals no loop adds
\* exactly delta * 120 * playbackSpeed to it, delta being the wall delta
\* the tick read from the clock and playbackSpeed the slider value at that
\* tick; a loop reset and restart set it to 0; no other step lowers it.
C20_PositionAdvance ==
    [][program = "second" =>
          /\ currentSample' >= 0
          /\ (op' = "animate" /\ ~looped') => currentSample' = Advanced
          /\ (looped' \/ op' = "restart") => currentSample' = 0
          /\ (op' # "restart" /\ ~looped') => currentSample' >= currentSample]_vars

\* a tick of 1/120 s at speed 2 after a tick of 1/240 s at speed 1
C20_Witness ==
    /\ program = "second"
    /\ op = "animate"
    /\ ~looped
    /\ delta = 2
    /\ playbackSpeed = 2
    /\ currentSample = 5

\* ------------------------------------------------------- tick order
\* C21: the marker positions, the rigid-body position and the frame time
\* of a tick all come from the position the tick's advance left: the index
\* read in the marker tracks is floor(position) mod L, the index read in
\* the rigid-body track floor(position) mod its length, and the frame time
\* is looked up at floor(position).
C21_AllFromAdvancedPosition ==
    (op = "animate" /\ program = "second" /\ MarkersLoaded /\ ~thrown) =>
        /\ lookups.marker = {Floor(currentSample) % PrimaryLength}
        /\ SpikesReady =>
              /\ lookups.rb = {Floor(currentSample) % Len0(rbposData)}
              /\ lookups.frame = {Floor(currentSample)}

\* C22: restart sets the position and the cursor to 0 and empties the
\* dots, and leaves the speed and the loaded tracks as they were.
C22_RestartEffect ==
    [][op' = "restart" =>
          /\ currentSample' = 0
          /\ spikeIndex' = 0
          /\ spikeGroup' = <<>>
          /\ UNCHANGED <<playbackSpeed, markerData, frameTimes, spikeTimes,
                         spikeNeurons, rbposData>>]_vars

\* a restart at speed 2, the last tick at index 2, the trail holding two appends
C22_Witness ==
    /\ op = "restart"
    /\ playbackSpeed = 2
    /\ SpikesReady
    /\ lastSampleIndex = 2
    /\ rbTrailCount >= 2
    /\ currentSample = 0
    /\ spikeGroup = <<>>

C24_CursorWithinTable ==
    /\ spikeIndex \in 0..Len0(spikeTimes)
    /\ \A k \in DOMAIN spikeGroup : spikeGroup[k].spike \in 0..(Len0(spikeTimes) - 1)

\* a scan that found the cursor at the end of the table and the last
\* spike due
C24_Witness ==
    /\ op = "animate"
    /\ SpikesReady
    /\ ~looped
    /\ spikeIndex = Len0(spikeTimes)
    /\ \E t \in lookups.frameTime : spikeTimes[Len0(spikeTimes) - 1] < t
    /\ rbAppends >= 3

\* C25: after every tick with the markers loaded the position is inside
\* the primary track: floor(position) < L.
C25_PositionInsideTrack ==
    (op = "animate" /\ program = "second" /\ MarkersLoaded /\ ~thrown) =>
        Floor(currentSample) < PrimaryLength

\* the table indices below the cursor whose source id is selected
SelectedBelowCursor == {j \in 0..(spikeIndex - 1) : spikeNeurons[j] \in SELECTED_NEURONS}
SelectedInTable == {j \in DOMAIN spikeNeurons : spikeNeurons[j] \in SELECTED_NEURONS}

\* C26: the dots are, in order, exactly the spikes below the cursor whose
\* id is selected: one dot per such spike, in ascending table order, each
\* with that spike's id; so there are never more dots than selected spikes
\* in the table.
C26_DotsAreSelectedBelowCursor ==
    /\ {spikeGroup[k].spike : k \in DOMAIN spikeGroup} = SelectedBelowCursor
    /\ Len(spikeGroup) = Cardinality(SelectedBelowCursor)
    /\ \A k \in DOMAIN spikeGroup :
          /\ spikeGroup[k].neuronId = spikeNeurons[spikeGroup[k].spike]
          /\ k > 1 => spikeGroup[k - 1].spike < spikeGroup[k].spike
    /\ Len(spikeGroup) <= Cardinality(SelectedInTable)

\* one selected spike emitted, a second selected one still pending, after
\* a tick that did not reset
C26_Witness ==
    /\ op = "animate"
    /\ ~looped
    /\ Len0(spikeTimes) = 2
    /\ spikeNeurons[1] \in SELECTED_NEURONS
    /\ spikeIndex = 1
    /\ Len(spikeGroup) = 1
    /\ lastSampleIndex > 0

\* C27: the first tick after a restart starts the rigid-body trail from
\* empty: its append is the first one, the count is 1 after it, and slot 0
\* holds the position of that tick.
C27_RestartEmptiesTrail ==
    [][(op = "restart" /\ op' = "animate" /\ SpikesReady /\ ~thrown') =>
          /\ rbTrailCount' = 1
          /\ SlotOf(rbTrailPositions', 0) = rbSphere']_vars

\* ------------------------------------------------------------- liveness
\* every tick advanced by less than the primary track's length (delta *
\* playbackSpeed half samples; the deltas the clock returns after its start
\* are positive), and the track is not empty
SmallAdvances ==
    /\ program = "second"
    /\ files.samples > 0
    /\ op = "animate" => delta * playbackSpeed < 2 * files.samples
\* a tick with every track loaded whose advance takes the position to the
\* end of the primary track or past it
CrossingTick ==
    /\ MarkersLoaded
    /\ SpikesReady
    /\ Tick
    /\ Advanced >= 2 * PrimaryLength
\* after a scan, every selected spike stamped at or before the frame time
\* the scan reached has its dot
DueSelectedEmitted ==
    (op = "animate" /\ SpikesReady) =>
        \A j \in DOMAIN spikeTimes :
            (spikeNeurons[j] \in SELECTED_NEURONS
                 /\ \E t \in lookups.frameTime : spikeTimes[j] <= t)
               => \E k \in DOMAIN spikeGroup : spikeGroup[k].spike = j

\* C28: when ticks keep occurring with every track loaded, every tick
\* advances by a positive amount smaller than L, and so the position comes
\* to the end of the track again and again, a loop reset occurs infinitely
\* often, and every selected spike stamped at or before a frame time
\* reached in a pass is emitted.
C28_LoopResetRecurs ==
    ([]SmallAdvances /\ []<><<CrossingTick>>_vars) =>
        ([]<>looped /\ []DueSelectedEmitted)

\* a one-sample primary track: the sample index is 0 on every tick
C28_OneSampleNeverLoops ==
    (program = "second" /\ MarkersLoaded /\ PrimaryLength = 1) => ~looped

====
